---- MODULE Spec2Model ----
(***************************************************************************)
(* Model of grasping_demo/pcd_registration.py: the module-level shared     *)
(* state (calibration transforms, workspace bounding box, the preprocessed *)
(* target cloud, the PoseStamped template) and get_target_grasp_pose, one  *)
(* action per statement, run by two concurrent callers.                    *)
(*                                                                         *)
(* Lengths are integers in millimetres (VOXEL_SIZE = 0.005 m = 5).         *)
(* Rigid transforms are 4x4 homogeneous integer matrices whose rotation    *)
(* blocks are rotations of the tetrahedral group (signed permutation       *)
(* matrices), so that products, inverses and unit quaternions are exact:   *)
(* a quaternion is stored as twice its unit value (w, x, y, z).            *)
(*                                                                         *)
(* Open3D, numpy-quaternion and ROS are external libraries: a library call *)
(* is modelled by what its documentation says it computes; the transform a *)
(* registration returns is a nondeterministic choice among outcomes, and   *)
(* every library call of the pipeline may raise instead of returning.      *)
(***************************************************************************)
EXTENDS Integers, Sequences, FiniteSets, TLC

VARIABLES clouds, poses, shared, pc, input, loc, icp, exc, stages, returned

vars == <<clouds, poses, shared, pc, input, loc, icp, exc, stages, returned>>

\* The two concurrent callers of get_target_grasp_pose.
Threads == {1, 2}

\* Largest number of ICP iterations a refinement runs (Open3D's
\* ICPConvergenceCriteria.max_iteration, left at its default by the code).
MaxIcpIter == 2

----------------------------------------------------------------------------
(* numpy: 4x4 matrices, points, rigid transforms *)

Identity4 == <<<<1, 0, 0, 0>>, <<0, 1, 0, 0>>, <<0, 0, 1, 0>>, <<0, 0, 0, 1>>>>

\* The value of a local variable holding a matrix before its assignment.
Unset4 == <<<<0, 0, 0, 0>>, <<0, 0, 0, 0>>, <<0, 0, 0, 0>>, <<0, 0, 0, 0>>>>

\* np.matmul on two 4x4 matrices.
MatMul(A, B) ==
    [i \in 1..4 |-> [j \in 1..4 |->
        A[i][1] * B[1][j] + A[i][2] * B[2][j] + A[i][3] * B[3][j] + A[i][4] * B[4][j]]]

\* M[:-1, :-1] and M[:-1, -1]
RotationBlock(M) == [i \in 1..3 |-> [j \in 1..3 |-> M[i][j]]]
Translation(M) == [i \in 1..3 |-> M[i][4]]

\* The homogeneous matrix of rotation R (3x3) and translation t.
Rigid(R, t) ==
    [i \in 1..4 |-> [j \in 1..4 |->
        IF i = 4 THEN (IF j = 4 THEN 1 ELSE 0)
        ELSE IF j = 4 THEN t[i] ELSE R[i][j]]]

Translate(t) == Rigid(RotationBlock(Identity4), t)

\* np.linalg.inv on a rigid transform: the rotation block transposed and the
\* translation -R^T t.
Inv(M) ==
    LET Rt == [i \in 1..3 |-> [j \in 1..3 |-> M[j][i]]]
        t  == Translation(M)
    IN  Rigid(Rt, [i \in 1..3 |-> -(Rt[i][1] * t[1] + Rt[i][2] * t[2] + Rt[i][3] * t[3])])

\* A homogeneous transform applied to one point.
ApplyT(M, p) ==
    [i \in 1..3 |-> M[i][1] * p[1] + M[i][2] * p[2] + M[i][3] * p[3] + M[i][4]]

\* PointCloud.transform on the coordinates.
TransformPoints(M, pts) == {ApplyT(M, p) : p \in pts}

Dist2(p, q) ==
    (p[1] - q[1]) * (p[1] - q[1]) + (p[2] - q[2]) * (p[2] - q[2])
        + (p[3] - q[3]) * (p[3] - q[3])

RECURSIVE SumPoints(_)
SumPoints(S) ==
    IF S = {} THEN <<0, 0, 0>>
    ELSE LET p == CHOOSE x \in S : TRUE
             r == SumPoints(S \ {p})
         IN  <<p[1] + r[1], p[2] + r[2], p[3] + r[3]>>

SetMin(S) == CHOOSE x \in S : \A y \in S : x <= y
SetMax(S) == CHOOSE x \in S : \A y \in S : x >= y

----------------------------------------------------------------------------
(* default registration parameters, in millimetres *)

VOXEL_SIZE == 5
RADIUS_NORMAL == 5
RADIUS_FEATURE == 30
GLOBAL_DISTANCE_THRESHOLD == 200
ICP_REFINE_DISTANCE_THRESHOLD == 2

----------------------------------------------------------------------------
(* the files loaded at import *)

RotX180 == <<<<1, 0, 0>>, <<0, -1, 0>>, <<0, 0, -1>>>>
RotZ180 == <<<<-1, 0, 0>>, <<0, -1, 0>>, <<0, 0, 1>>>>
Rot120 == <<<<0, 0, 1>>, <<1, 0, 0>>, <<0, 1, 0>>>>

\* transform_cam_to_base_fine_tuned.npy and its inverse
\* transform_base_to_cam_fine_tuned.npy
CamToBaseFile == Rigid(RotX180, <<10, 20, 30>>)
BaseToCamFile == Inv(CamToBaseFile)
\* transform_base_to_reference_grasp.npy
ReferenceGraspFile == Rigid(Rot120, <<11, 21, 31>>)
\* workspace_bounding_box_array_in_base.npy: the corners of the workspace
WorkspaceCornersFile ==
    {<<x, y, z>> : x \in {-10, 40}, y \in {0, 40}, z \in {20, 40}}
\* cropped_pcd_reference_in_world_frame.ply: the reference scan
ReferenceScanFile == {<<0, 0, 0>>, <<2, 0, 0>>, <<20, 0, 0>>, <<0, 10, 0>>}

----------------------------------------------------------------------------
(* Open3D geometry *)

\* A point cloud object: coordinates, one colour, whether normals are set,
\* and whether the object is allocated.
Cloud(pts, color, normals) ==
    [points |-> pts, color |-> color, normals |-> normals, live |-> TRUE]
NoCloud == [points |-> {}, color |-> "none", normals |-> FALSE, live |-> FALSE]

\* OrientedBoundingBox.create_from_points on the corners of an axis-aligned box.
CreateBoxFromPoints(corners) ==
    [lo |-> [i \in 1..3 |-> SetMin({c[i] : c \in corners})],
     hi |-> [i \in 1..3 |-> SetMax({c[i] : c \in corners})]]

\* get_point_indices_within_bounding_box: the faces belong to the box.
InsideBox(p, box) == \A i \in 1..3 : box.lo[i] <= p[i] /\ p[i] <= box.hi[i]
StrictlyInside(p, box) == \A i \in 1..3 : box.lo[i] < p[i] /\ p[i] < box.hi[i]
StrictlyOutside(p, box) == ~InsideBox(p, box)

\* PointCloud.crop(box): a NEW cloud holding the points within the box; the
\* cloud it is called on is left as it is.
Crop(cloud, box) ==
    [cloud EXCEPT !.points = {p \in cloud.points : InsideBox(p, box)}]

\* PointCloud.voxel_down_sample: the grid starts half a voxel below the
\* cloud's minimum bound; every occupied voxel yields the mean of its points.
VoxelIndex(p, minb, v) == [i \in 1..3 |-> (2 * (p[i] - minb[i]) + v) \div (2 * v)]
VoxelDownSample(pts, v) ==
    IF pts = {} THEN {}
    ELSE LET minb == [i \in 1..3 |-> SetMin({p[i] : p \in pts})]
             voxel == [p \in pts |-> VoxelIndex(p, minb, v)]
             mean(S) == LET s == SumPoints(S)
                            n == Cardinality(S)
                        IN  <<s[1] \div n, s[2] \div n, s[3] \div n>>
         IN  {mean({q \in pts : voxel[q] = voxel[p]}) : p \in pts}

\* compute_fpfh_feature: per point a histogram of its neighbourhood within
\* the radius, here the distances to the neighbours with their multiplicity
\* (unchanged by a rigid motion of the cloud).
ComputeFpfh(pts, radius) ==
    [p \in pts |->
        LET near == {q \in pts \ {p} : Dist2(p, q) <= radius * radius}
        IN  {<<d, Cardinality({q \in near : Dist2(p, q) = d})>> :
                d \in {Dist2(p, q) : q \in near}}]

NoFeature == [p \in {} |-> {}]

----------------------------------------------------------------------------
(* Open3D registration *)

RECURSIVE SumNearest(_, _, _)
SumNearest(S, M, tgt) ==
    IF S = {} THEN 0
    ELSE LET p == CHOOSE x \in S : TRUE
         IN  SetMin({Dist2(ApplyT(M, p), q) : q \in tgt}) + SumNearest(S \ {p}, M, tgt)

\* RegistrationResult of a transformation: fitness is (source points with a
\* target point within the threshold, source points); inlier_rmse2 is (sum
\* of the squared distances of those correspondences, their number).
EvaluateRegistration(src, tgt, M, threshold) ==
    LET inl == IF tgt = {} THEN {}
               ELSE {p \in src :
                       SetMin({Dist2(ApplyT(M, p), q) : q \in tgt}) <= threshold * threshold}
    IN  [transformation |-> M,
         fitness        |-> <<Cardinality(inl), Cardinality(src)>>,
         inlier_rmse2   |-> <<SumNearest(inl, M, tgt), Cardinality(inl)>>]

NoResult == [transformation |-> Unset4, fitness |-> <<0, 0>>, inlier_rmse2 |-> <<0, 0>>]

\* The motion of the object between the reference scan and a later capture,
\* in the camera frame, and a point of the scene outside the workspace.
ObjectMotion == Rigid(RotZ180, <<4, 6, 0>>)
Clutter == <<100, 0, 0>>

\* The clouds a caller passes (camera frame): the object where the reference
\* scan saw it, the object moved, the object moved with clutter in view.
SourceClouds ==
    <<ReferenceScanFile,
      TransformPoints(ObjectMotion, ReferenceScanFile),
      TransformPoints(ObjectMotion, ReferenceScanFile) \cup {Clutter}>>

\* What fast global registration can return: the identity (nothing matched)
\* or an alignment of one of the two object poses that is off by a millimetre.
FgrOutcomes ==
    {Identity4,
     MatMul(Translate(<<1, 0, 0>>), CamToBaseFile),
     MatMul(Translate(<<1, 0, 0>>), MatMul(CamToBaseFile, Inv(ObjectMotion)))}

\* The incremental transform one ICP iteration composes into the running one.
IcpUpdates == {Translate(<<-1, 0, 0>>)}

----------------------------------------------------------------------------
(* numpy-quaternion and geometry_msgs *)

\* quaternion.from_rotation_matrix followed by as_float_array (w, x, y, z),
\* for an orthogonal matrix: the branch is chosen by the largest of R00, R11,
\* R22 and the trace (the first on ties), the result is normalized; stored as
\* twice the unit value. (q and -q are the same rotation: the claims read the
\* orientation through the rotation matrix it stands for.)
FromRotationMatrix(R) ==
    LET tr == R[1][1] + R[2][2] + R[3][3]
        d  == <<R[1][1], R[2][2], R[3][3], tr>>
        k  == CHOOSE i \in 1..4 :
                /\ \A j \in 1..4 : d[i] >= d[j]
                /\ \A j \in 1..(i - 1) : d[j] < d[i]
        q  == CASE k = 4 -> <<1 + tr, R[3][2] - R[2][3], R[1][3] - R[3][1], R[2][1] - R[1][2]>>
                [] k = 1 -> <<R[3][2] - R[2][3], 1 + R[1][1] - R[2][2] - R[3][3],
                              R[1][2] + R[2][1], R[1][3] + R[3][1]>>
                [] k = 2 -> <<R[1][3] - R[3][1], R[2][1] + R[1][2],
                              1 - R[1][1] + R[2][2] - R[3][3], R[2][3] + R[3][2]>>
                [] k = 3 -> <<R[2][1] - R[1][2], R[3][1] + R[1][3], R[3][2] + R[2][3],
                              1 - R[1][1] - R[2][2] + R[3][3]>>
        n2 == q[1] * q[1] + q[2] * q[2] + q[3] * q[3] + q[4] * q[4]
        n  == CHOOSE m \in 0..4 : m * m = n2
    IN  [i \in 1..4 |-> (2 * q[i]) \div n]

\* PoseStamped(): empty header, zero position and orientation.
PoseStamped ==
    [frame_id |-> "", position |-> <<0, 0, 0>>, orientation |-> <<0, 0, 0, 0>>, live |-> TRUE]
NoPose ==
    [frame_id |-> "", position |-> <<0, 0, 0>>, orientation |-> <<0, 0, 0, 0>>, live |-> FALSE]

----------------------------------------------------------------------------
(* objects and references *)

NullRef == <<0, "null">>
Target == <<0, "target">>
TargetDown == <<0, "target_down">>
PoseMsg == <<0, "pose_msg">>

\* The objects a call of thread t allocates, and the caller's cloud.
LocalCloudNames == {"source_pcd", "original", "to_process", "cropped", "down"}
CloudIds == {Target, TargetDown} \cup (Threads \X LocalCloudNames)
PoseIds == {PoseMsg} \cup (Threads \X {"pose"})

\* preprocess_point_cloud(pcd): the downsampled cloud with normals and its
\* FPFH features.
PreprocessPointCloud(pcd) ==
    LET pcd_down == [pcd EXCEPT !.points = VoxelDownSample(pcd.points, VOXEL_SIZE),
                                !.normals = RADIUS_NORMAL > 0]
    IN  [pcd_down |-> pcd_down, pcd_fpfh |-> ComputeFpfh(pcd_down.points, RADIUS_FEATURE)]

\* The module-level statements: calibration, bounding box, displacement.
SharedInit ==
    [transform_base_to_cam_hand_calibrated |-> BaseToCamFile,
     transform_cam_to_base_hand_calibrated |-> CamToBaseFile,
     transform_base_to_reference_grasp |-> ReferenceGraspFile,
     workspace_bounding_box |-> CreateBoxFromPoints(WorkspaceCornersFile),
     target_fpfh |->
        PreprocessPointCloud(
            Cloud(TransformPoints(CamToBaseFile, ReferenceScanFile), "grey", FALSE)).pcd_fpfh,
     init_transformation_for_global_registration |-> BaseToCamFile]

\* target: read, moved into the robot frame, painted grey.
TargetInit == Cloud(TransformPoints(CamToBaseFile, ReferenceScanFile), "grey", FALSE)
TargetDownInit == PreprocessPointCloud(TargetInit).pcd_down

LocInit ==
    [source_pcd |-> NullRef, source_pcd_original |-> NullRef,
     source_pcd_to_process |-> NullRef, source_down |-> NullRef,
     source_fpfh |-> NoFeature, result_fast |-> NoResult, result_refine |-> NoResult,
     transform_source_to_target |-> Unset4, transform_target_grasp |-> Unset4,
     rotation_quat |-> <<0, 0, 0, 0>>, translate_matrix |-> <<0, 0, 0>>,
     pose |-> NullRef]

NoIcp == [source |-> NullRef, target |-> NullRef, transformation |-> Unset4, iteration |-> 0]
NoReturn == [pose |-> NullRef]

Init ==
    /\ clouds = [c \in CloudIds |->
                    IF c = Target THEN TargetInit
                    ELSE IF c = TargetDown THEN TargetDownInit
                    ELSE NoCloud]
    /\ poses = [p \in PoseIds |-> IF p = PoseMsg THEN PoseStamped ELSE NoPose]
    /\ shared = SharedInit
    /\ pc = [t \in Threads |-> "idle"]
    /\ input = [t \in Threads |-> 0]
    /\ loc = [t \in Threads |-> LocInit]
    /\ icp = [t \in Threads |-> NoIcp]
    /\ exc = [t \in Threads |-> "none"]
    /\ stages = [t \in Threads |-> <<>>]
    /\ returned = [t \in Threads |-> NoReturn]

----------------------------------------------------------------------------
(* get_target_grasp_pose(source_pcd), statement by statement *)

\* One entry of the record of the stages a call has entered, with the
\* arguments the stage was given.
StageCall(stage, source, target, source_feature, target_feature, init) ==
    [stage |-> stage, source |-> source, target |-> target,
     source_feature |-> source_feature, target_feature |-> target_feature,
     init |-> init]

\* A copy forgotten: the name is bound to the object copied from.
AliasSourcePcd(ref, fresh) == ref
AliasPoseMsg(ref, fresh) == ref

\* dcp(source_pcd), dcp(source_pcd_original), dcp(pose_msg): the reference
\* the assignment binds is the one of the new object.
CopySourcePcd(ref, fresh) == fresh
CopySourcePcdOriginal(ref, fresh) == fresh
CopyPoseMsg(ref, fresh) == fresh

\* A stage wrapped in "try: ... except: pass": the call goes on.
SwallowStageError(next) == next

\* No statement of get_target_grasp_pose sits in a try block: a stage that
\* raises ends the call, whatever statement would have come next.
OnStageError(next) == "raised"

\* ICP started from the identity, the coarse result dropped.
StartFromIdentity(result_fast) == Identity4

\* The third argument of refine_registration.
PreviousTransformation(result_fast) == result_fast.transformation

\* The two factors multiplied in the other order.
ComposeInitFirst(refined, init) == MatMul(init, refined)

\* np.matmul(result_refine.transformation, init_transformation_for_global_registration)
ComposeSourceToTarget(refined, init) == MatMul(refined, init)

\* np.matmul(np.linalg.inv(transform_source_to_target), transform_base_to_reference_grasp)
ComposeTargetGrasp(source_to_target, reference_grasp) ==
    MatMul(Inv(source_to_target), reference_grasp)

\* The value of the return statement.
ReturnValue(pose, result_refine) == [pose |-> pose]

Raise(t, stage, next) ==
    /\ pc' = [pc EXCEPT ![t] = OnStageError(next)]
    /\ exc' = [exc EXCEPT ![t] = stage]

\* A caller invokes the pipeline with a cloud of its own.
StartCall(t) ==
    /\ pc[t] = "idle"
    /\ \E i \in DOMAIN SourceClouds :
        /\ input' = [input EXCEPT ![t] = i]
        /\ clouds' = [clouds EXCEPT ![<<t, "source_pcd">>] = Cloud(SourceClouds[i], "raw", FALSE)]
    /\ loc' = [loc EXCEPT ![t].source_pcd = <<t, "source_pcd">>]
    /\ pc' = [pc EXCEPT ![t] = "copy_source"]
    /\ UNCHANGED <<poses, shared, icp, exc, stages, returned>>

\* source_pcd_original = dcp(source_pcd)
CopySource(t) ==
    /\ pc[t] = "copy_source"
    /\ LET ref == CopySourcePcd(loc[t].source_pcd, <<t, "original">>)
       IN  /\ clouds' = [clouds EXCEPT ![ref] = clouds[loc[t].source_pcd]]
           /\ loc' = [loc EXCEPT ![t].source_pcd_original = ref]
    /\ pc' = [pc EXCEPT ![t] = "paint"]
    /\ UNCHANGED <<poses, shared, input, icp, exc, stages, returned>>

\* source_pcd_original.paint_uniform_color([0, 0, 1])
Paint(t) ==
    /\ pc[t] = "paint"
    /\ clouds' = [clouds EXCEPT ![loc[t].source_pcd_original].color = "blue"]
    /\ pc' = [pc EXCEPT ![t] = "to_base"]
    /\ UNCHANGED <<poses, shared, input, loc, icp, exc, stages, returned>>

\* source_pcd_original.transform(transform_cam_to_base_hand_calibrated)
TransformToBase(t) ==
    /\ pc[t] = "to_base"
    /\ clouds' = [clouds EXCEPT ![loc[t].source_pcd_original].points =
                    TransformPoints(shared.transform_cam_to_base_hand_calibrated, @)]
    /\ pc' = [pc EXCEPT ![t] = "copy_original"]
    /\ UNCHANGED <<poses, shared, input, loc, icp, exc, stages, returned>>

\* source_pcd_to_process = dcp(source_pcd_original)
CopyOriginal(t) ==
    /\ pc[t] = "copy_original"
    /\ LET ref == CopySourcePcdOriginal(loc[t].source_pcd_original, <<t, "to_process">>)
       IN  /\ clouds' = [clouds EXCEPT ![ref] = clouds[loc[t].source_pcd_original]]
           /\ loc' = [loc EXCEPT ![t].source_pcd_to_process = ref]
    /\ pc' = [pc EXCEPT ![t] = "crop"]
    /\ UNCHANGED <<poses, shared, input, icp, exc, stages, returned>>

\* source_pcd_to_process.crop(workspace_bounding_box): the cropped cloud is
\* the value of the expression statement, bound to no name.
CropToWorkspace(t) ==
    /\ pc[t] = "crop"
    /\ clouds' = [clouds EXCEPT ![<<t, "cropped">>] =
                    Crop(clouds[loc[t].source_pcd_to_process], shared.workspace_bounding_box)]
    /\ pc' = [pc EXCEPT ![t] = "displace"]
    /\ UNCHANGED <<poses, shared, input, loc, icp, exc, stages, returned>>

\* source_pcd_to_process.transform(init_transformation_for_global_registration)
Displace(t) ==
    /\ pc[t] = "displace"
    /\ clouds' = [clouds EXCEPT ![loc[t].source_pcd_to_process].points =
                    TransformPoints(shared.init_transformation_for_global_registration, @)]
    /\ pc' = [pc EXCEPT ![t] = "preprocess"]
    /\ UNCHANGED <<poses, shared, input, loc, icp, exc, stages, returned>>

\* source_down, source_fpfh = preprocess_point_cloud(source_pcd_to_process)
Preprocess(t) ==
    /\ pc[t] = "preprocess"
    /\ stages' = [stages EXCEPT ![t] =
                    Append(@, StageCall("preprocess", loc[t].source_pcd_to_process, NullRef,
                                        NoFeature, NoFeature, Unset4))]
    /\ \E ok \in BOOLEAN :
        IF ok
        THEN LET r == PreprocessPointCloud(clouds[loc[t].source_pcd_to_process])
             IN  /\ clouds' = [clouds EXCEPT ![<<t, "down">>] = r.pcd_down]
                 /\ loc' = [loc EXCEPT ![t].source_down = <<t, "down">>,
                                       ![t].source_fpfh = r.pcd_fpfh]
                 /\ pc' = [pc EXCEPT ![t] = "global"]
                 /\ UNCHANGED exc
        ELSE /\ Raise(t, "preprocess", "global")
             /\ UNCHANGED <<clouds, loc>>
    /\ UNCHANGED <<poses, shared, input, icp, returned>>

\* result_fast = execute_fast_global_registration(source_down, target_down,
\*                                                source_fpfh, target_fpfh)
GlobalRegistration(t) ==
    /\ pc[t] = "global"
    /\ stages' = [stages EXCEPT ![t] =
                    Append(@, StageCall("global", loc[t].source_down, TargetDown,
                                        loc[t].source_fpfh, shared.target_fpfh, Unset4))]
    /\ \E ok \in BOOLEAN :
        IF ok
        THEN /\ \E M \in FgrOutcomes :
                    loc' = [loc EXCEPT ![t].result_fast =
                                EvaluateRegistration(clouds[loc[t].source_down].points,
                                                     clouds[TargetDown].points, M,
                                                     GLOBAL_DISTANCE_THRESHOLD)]
             /\ pc' = [pc EXCEPT ![t] = "refine"]
             /\ UNCHANGED exc
        ELSE /\ Raise(t, "global", "refine")
             /\ UNCHANGED loc
    /\ UNCHANGED <<clouds, poses, shared, input, icp, returned>>

\* refine_registration(source_down, target_down, result_fast.transformation):
\* registration_icp starts from the transformation it is given.
RefineStart(t) ==
    /\ pc[t] = "refine"
    /\ stages' = [stages EXCEPT ![t] =
                    Append(@, StageCall("refine", loc[t].source_down, TargetDown,
                                        NoFeature, NoFeature,
                                        PreviousTransformation(loc[t].result_fast)))]
    /\ icp' = [icp EXCEPT ![t] =
                [source |-> loc[t].source_down, target |-> TargetDown,
                 transformation |-> PreviousTransformation(loc[t].result_fast),
                 iteration |-> 0]]
    /\ pc' = [pc EXCEPT ![t] = "icp"]
    /\ UNCHANGED <<clouds, poses, shared, input, loc, exc, returned>>

\* One ICP iteration: an incremental transform is composed into the running one.
RefineIterate(t) ==
    /\ pc[t] = "icp"
    /\ icp[t].iteration < MaxIcpIter
    /\ \E U \in IcpUpdates :
        icp' = [icp EXCEPT ![t].transformation = MatMul(U, @),
                           ![t].iteration = @ + 1]
    /\ UNCHANGED <<clouds, poses, shared, pc, input, loc, exc, stages, returned>>

\* registration_icp returns (converged, or out of iterations), or raises.
RefineReturn(t) ==
    /\ pc[t] = "icp"
    /\ \E ok \in BOOLEAN :
        IF ok
        THEN /\ loc' = [loc EXCEPT ![t].result_refine =
                            EvaluateRegistration(clouds[icp[t].source].points,
                                                 clouds[icp[t].target].points,
                                                 icp[t].transformation,
                                                 ICP_REFINE_DISTANCE_THRESHOLD)]
             /\ pc' = [pc EXCEPT ![t] = "compose"]
             /\ UNCHANGED exc
        ELSE /\ Raise(t, "refine", "compose")
             /\ UNCHANGED loc
    /\ icp' = [icp EXCEPT ![t] = NoIcp]
    /\ UNCHANGED <<clouds, poses, shared, input, stages, returned>>

\* transform_source_to_target, transform_target_to_source, transform_target_grasp
Compose(t) ==
    /\ pc[t] = "compose"
    /\ stages' = [stages EXCEPT ![t] =
                    Append(@, StageCall("compose", NullRef, NullRef, NoFeature, NoFeature,
                                        loc[t].result_refine.transformation))]
    /\ LET tst == ComposeSourceToTarget(loc[t].result_refine.transformation,
                                        shared.init_transformation_for_global_registration)
       IN  loc' = [loc EXCEPT ![t].transform_source_to_target = tst,
                              ![t].transform_target_grasp =
                                  ComposeTargetGrasp(tst, shared.transform_base_to_reference_grasp)]
    /\ pc' = [pc EXCEPT ![t] = "draw"]
    /\ UNCHANGED <<clouds, poses, shared, input, icp, exc, returned>>

\* o3d.visualization.draw_geometries(...) opens a window and does not return
\* before the window is closed.
DrawGeometries(t) ==
    /\ pc[t] = "draw"
    /\ clouds[loc[t].source_pcd_original].live /\ clouds[Target].live
    /\ pc' = [pc EXCEPT ![t] = "window"]
    /\ UNCHANGED <<clouds, poses, shared, input, loc, icp, exc, stages, returned>>

\* The person at the screen closes the window.
CloseWindow(t) ==
    /\ pc[t] = "window"
    /\ pc' = [pc EXCEPT ![t] = "convert"]
    /\ UNCHANGED <<clouds, poses, shared, input, loc, icp, exc, stages, returned>>

\* rotation_quat (w, x, y, z) and translate_matrix (x, y, z)
Convert(t) ==
    /\ pc[t] = "convert"
    /\ loc' = [loc EXCEPT
                 ![t].rotation_quat =
                     FromRotationMatrix(RotationBlock(loc[t].transform_target_grasp)),
                 ![t].translate_matrix = Translation(loc[t].transform_target_grasp)]
    /\ pc' = [pc EXCEPT ![t] = "copy_pose"]
    /\ UNCHANGED <<clouds, poses, shared, input, icp, exc, stages, returned>>

\* pose = dcp(pose_msg)
CopyPose(t) ==
    /\ pc[t] = "copy_pose"
    /\ LET ref == CopyPoseMsg(PoseMsg, <<t, "pose">>)
       IN  /\ poses' = [poses EXCEPT ![ref] = poses[PoseMsg]]
           /\ loc' = [loc EXCEPT ![t].pose = ref]
    /\ pc' = [pc EXCEPT ![t] = "position"]
    /\ UNCHANGED <<clouds, shared, input, icp, exc, stages, returned>>

\* pose.pose.position.x, .y, .z
FillPosition(t) ==
    /\ pc[t] = "position"
    /\ poses' = [poses EXCEPT ![loc[t].pose].position = loc[t].translate_matrix]
    /\ pc' = [pc EXCEPT ![t] = "orientation"]
    /\ UNCHANGED <<clouds, shared, input, loc, icp, exc, stages, returned>>

\* pose.pose.orientation.w, .x, .y, .z
FillOrientation(t) ==
    /\ pc[t] = "orientation"
    /\ poses' = [poses EXCEPT ![loc[t].pose].orientation = loc[t].rotation_quat]
    /\ pc' = [pc EXCEPT ![t] = "return"]
    /\ UNCHANGED <<clouds, shared, input, loc, icp, exc, stages, returned>>

\* return pose
Return(t) ==
    /\ pc[t] = "return"
    /\ returned' = [returned EXCEPT ![t] = ReturnValue(loc[t].pose, loc[t].result_refine)]
    /\ pc' = [pc EXCEPT ![t] = "done"]
    /\ UNCHANGED <<clouds, poses, shared, input, loc, icp, exc, stages>>

\* The caller has taken the pose or the exception; the objects of the call
\* are dropped and the caller may call again.
Collect(t) ==
    /\ pc[t] \in {"done", "raised"}
    /\ pc' = [pc EXCEPT ![t] = "idle"]
    /\ clouds' = [c \in CloudIds |-> IF c[1] = t THEN NoCloud ELSE clouds[c]]
    /\ poses' = [p \in PoseIds |-> IF p[1] = t THEN NoPose ELSE poses[p]]
    /\ input' = [input EXCEPT ![t] = 0]
    /\ loc' = [loc EXCEPT ![t] = LocInit]
    /\ exc' = [exc EXCEPT ![t] = "none"]
    /\ stages' = [stages EXCEPT ![t] = <<>>]
    /\ returned' = [returned EXCEPT ![t] = NoReturn]
    /\ UNCHANGED <<shared, icp>>

\* The steps of a call that the pipeline takes by itself.
PipelineStep(t) ==
    \/ CopySource(t) \/ Paint(t) \/ TransformToBase(t) \/ CopyOriginal(t)
    \/ CropToWorkspace(t) \/ Displace(t) \/ Preprocess(t) \/ GlobalRegistration(t)
    \/ RefineStart(t) \/ RefineIterate(t) \/ RefineReturn(t) \/ Compose(t)
    \/ DrawGeometries(t) \/ Convert(t) \/ CopyPose(t) \/ FillPosition(t)
    \/ FillOrientation(t) \/ Return(t)

Next ==
    \E t \in Threads :
        \/ StartCall(t)
        \/ PipelineStep(t)
        \/ CloseWindow(t)
        \/ Collect(t)

Spec == Init /\ [][Next]_vars

----------------------------------------------------------------------------
(* What the claims read *)

InCall(t) == pc[t] \notin {"idle", "done", "raised"}

\* The rotation matrix of a quaternion stored as twice its unit value.
RotationOfQuat(p) ==
    LET w == p[1]
        x == p[2]
        y == p[3]
        z == p[4]
    IN  <<<<(w * w + x * x - y * y - z * z) \div 4, (x * y - w * z) \div 2, (x * z + w * y) \div 2>>,
          <<(x * y + w * z) \div 2, (w * w - x * x + y * y - z * z) \div 4, (y * z - w * x) \div 2>>,
          <<(x * z - w * y) \div 2, (y * z + w * x) \div 2, (w * w - x * x - y * y + z * z) \div 4>>>>

\* The fine aligner's transform maps the displaced cloud onto the target.
FineAlignerAligned(t) ==
    TransformPoints(loc[t].result_refine.transformation,
                    clouds[loc[t].source_pcd_to_process].points) = clouds[Target].points

\* C1: the pose a call returns is the translation and rotation of
\* inverse(R * init) * base_to_reference_grasp, R being the fine aligner's
\* transform; when R aligns the displaced cloud to the target, R * init maps
\* the base-frame source cloud onto the target; and when R * init is the
\* identity the pose is the translation and rotation of the reference grasp.
C1_PoseIsReferenceGraspThroughInverseRegistration ==
    \A t \in Threads :
        pc[t] = "done" =>
            LET R == loc[t].result_refine.transformation
                T == MatMul(R, shared.init_transformation_for_global_registration)
                G == MatMul(Inv(T), shared.transform_base_to_reference_grasp)
                P == poses[returned[t].pose]
            IN  /\ P.position = Translation(G)
                /\ RotationOfQuat(P.orientation) = RotationBlock(G)
                /\ FineAlignerAligned(t) =>
                      TransformPoints(loc[t].transform_source_to_target,
                                      clouds[loc[t].source_pcd_original].points)
                          = clouds[Target].points
                /\ T = Identity4 =>
                      /\ P.position = Translation(shared.transform_base_to_reference_grasp)
                      /\ RotationOfQuat(P.orientation)
                            = RotationBlock(shared.transform_base_to_reference_grasp)

\* Two finished calls: one of the moved object, aligned by the fine aligner
\* with a transform_source_to_target that is not the identity, and one whose
\* transform_source_to_target is the identity.
C1_Witness ==
    \E t, u \in Threads :
        /\ pc[t] = "done" /\ pc[u] = "done"
        /\ input[t] = 2 /\ FineAlignerAligned(t)
        /\ loc[t].transform_source_to_target # Identity4
        /\ loc[u].transform_source_to_target = Identity4
        /\ poses[returned[u].pose].position = Translation(ReferenceGraspFile)

\* C2: when the source cloud reaches the Preprocessor, every point of the
\* base-frame source strictly outside the workspace box is absent from it
\* and every point strictly inside the box is present.
C2_SourceCroppedBeforePreprocess ==
    \A t \in Threads :
        pc[t] = "preprocess" =>
            \A p \in clouds[loc[t].source_pcd_original].points :
                LET q == ApplyT(shared.init_transformation_for_global_registration, p)
                    processed == clouds[loc[t].source_pcd_to_process].points
                IN  /\ StrictlyOutside(p, shared.workspace_bounding_box) => q \notin processed
                    /\ StrictlyInside(p, shared.workspace_bounding_box) => q \in processed

\* C3: the pose a call returns names a frame: its frame identifier is not
\* the empty default.
C3_PoseTaggedWithBaseFrame ==
    \A t \in Threads :
        pc[t] = "done" => poses[returned[t].pose].frame_id # ""

\* C4: what a call returns carries the fitness and the RMSE of the fine
\* registration.
C4_FitnessAndRmseReturned ==
    \A t \in Threads :
        pc[t] = "done" => {"fitness", "inlier_rmse"} \subseteq DOMAIN returned[t]

\* C5: a stage that fails ends the call: the failure is with the caller, the
\* failed stage is the last one entered, no pose was made or returned, and a
\* call that returns a pose had no failed stage.
C5_FailureAbortsCall ==
    \A t \in Threads :
        /\ exc[t] # "none" =>
              /\ pc[t] = "raised"
              /\ stages[t] # <<>>
              /\ stages[t][Len(stages[t])].stage = exc[t]
              /\ loc[t].pose = NullRef
              /\ returned[t] = NoReturn
        /\ pc[t] = "done" => exc[t] = "none"

\* A call ended by a failure of the coarse aligner while the other call
\* ended by a failure of the fine aligner.
C5_Witness ==
    \E t, u \in Threads :
        /\ pc[t] = "raised" /\ exc[t] = "global"
        /\ pc[u] = "raised" /\ exc[u] = "refine"

\* C6: the shared state keeps the values the import gave it: calibration,
\* bounding box, displacement, target, target_down, target_fpfh (still the
\* descriptors of target_down) and the template pose; no call preprocesses
\* the target again.
C6_SharedStateAsInitialized ==
    /\ shared = SharedInit
    /\ clouds[Target] = TargetInit
    /\ clouds[TargetDown] = TargetDownInit
    /\ shared.target_fpfh = ComputeFpfh(clouds[TargetDown].points, RADIUS_FEATURE)
    /\ poses[PoseMsg] = PoseStamped
    /\ \A t \in Threads : \A i \in 1..Len(stages[t]) :
          stages[t][i].stage = "preprocess" => stages[t][i].source \notin {Target, TargetDown}

\* One call has returned its pose and the other is filling its own.
C6_Witness ==
    \E t, u \in Threads :
        /\ pc[t] = "done" /\ pc[u] = "return"
        /\ poses[returned[t].pose].position # <<0, 0, 0>>

\* C7: from the call to the moment the caller takes the outcome, the
\* caller's cloud has the points, colour and normals it was passed with.
C7_CallerCloudUntouched ==
    \A t \in Threads :
        pc[t] # "idle" => clouds[<<t, "source_pcd">>] = Cloud(SourceClouds[input[t]], "raw", FALSE)

\* One call returned a pose and the other failed, both after the painted,
\* moved copies were made.
C7_Witness ==
    \E t, u \in Threads :
        /\ pc[t] = "done" /\ pc[u] = "raised"
        /\ clouds[loc[t].source_pcd_original].color = "blue"
        /\ clouds[loc[u].source_pcd_original].points # clouds[<<u, "source_pcd">>].points

\* The downsampled cloud a call computes from caller's cloud i when nothing
\* else touches its copies.
AloneSourceDown(i) ==
    VoxelDownSample(
        TransformPoints(BaseToCamFile, TransformPoints(CamToBaseFile, SourceClouds[i])),
        VOXEL_SIZE)

\* C8: with two calls interleaved, every reference a call holds is to an
\* object of its own, two returned poses are distinct objects and neither is
\* the template, and a returned pose is the one the call computes alone from
\* its own cloud and its own registration outcome.
C8_ConcurrentCallsIndependent ==
    \A t \in Threads :
        /\ loc[t].source_pcd_original \in {NullRef, <<t, "original">>}
        /\ loc[t].source_pcd_to_process \in {NullRef, <<t, "to_process">>}
        /\ loc[t].source_down \in {NullRef, <<t, "down">>}
        /\ loc[t].pose \in {NullRef, <<t, "pose">>}
        /\ \A u \in Threads \ {t} :
              pc[t] = "done" /\ pc[u] = "done" => returned[t].pose # returned[u].pose
        /\ pc[t] = "done" =>
              LET R == loc[t].result_refine.transformation
                  G == ComposeTargetGrasp(ComposeSourceToTarget(R, BaseToCamFile),
                                          ReferenceGraspFile)
                  P == poses[returned[t].pose]
              IN  /\ returned[t].pose # PoseMsg
                  /\ loc[t].result_refine =
                        EvaluateRegistration(AloneSourceDown(input[t]), TargetDownInit.points,
                                             R, ICP_REFINE_DISTANCE_THRESHOLD)
                  /\ P.position = Translation(G)
                  /\ P.orientation = FromRotationMatrix(RotationBlock(G))

\* Both calls have returned, for different clouds, poses that differ.
C8_Witness ==
    \E t, u \in Threads :
        /\ t # u /\ pc[t] = "done" /\ pc[u] = "done"
        /\ input[t] # input[u]
        /\ poses[returned[t].pose].position # poses[returned[u].pose].position

\* C9: a call in progress can always take a step of its own: at no point
\* does it wait for anything outside the pipeline.
C9_CallNeverWaitsOutsidePipeline ==
    \A t \in Threads : InCall(t) => ENABLED PipelineStep(t)

\* The transforms ICP can return when started from M with n iterations left.
RECURSIVE IcpReach(_, _)
IcpReach(M, n) ==
    IF n = 0 THEN {M}
    ELSE {M} \cup UNION {IcpReach(MatMul(U, M), n - 1) : U \in IcpUpdates}

StageOrder == <<"preprocess", "global", "refine", "compose">>

\* The number of stages a call has entered when it is at a statement.
StagesEntered(p) ==
    CASE p \in {"idle", "copy_source", "paint", "to_base", "copy_original", "crop",
                "displace", "preprocess"} -> {0}
      [] p = "global" -> {1}
      [] p = "refine" -> {2}
      [] p \in {"icp", "compose"} -> {3}
      [] p = "raised" -> {1, 2, 3}
      [] OTHER -> {4}

\* C10: a call enters preprocess, coarse alignment, fine alignment and pose
\* composition in this order, each once; both aligners get the call's
\* source_down and target_down; the descriptors given to the coarse aligner
\* are those of the clouds they come with, as the clouds are now; the fine
\* aligner starts from the coarse aligner's transform and the transform
\* composed into the pose is the fine aligner's.
C10_StagesInOrderOnSameClouds ==
    \A t \in Threads :
        /\ Len(stages[t]) \in StagesEntered(pc[t])
        /\ \A i \in 1..Len(stages[t]) :
              LET s == stages[t][i]
              IN  /\ s.stage = StageOrder[i]
                  /\ s.stage = "global" =>
                        /\ s.source = <<t, "down">> /\ s.target = TargetDown
                        /\ clouds[s.source].normals
                        /\ clouds[s.source].points =
                              VoxelDownSample(clouds[stages[t][1].source].points, VOXEL_SIZE)
                        /\ s.source_feature = ComputeFpfh(clouds[s.source].points, RADIUS_FEATURE)
                        /\ s.target_feature = ComputeFpfh(clouds[s.target].points, RADIUS_FEATURE)
                  /\ s.stage = "refine" =>
                        /\ s.source = stages[t][2].source /\ s.target = stages[t][2].target
                        /\ s.init = loc[t].result_fast.transformation
                        /\ s.init \in FgrOutcomes
                  /\ s.stage = "compose" =>
                        /\ s.init = loc[t].result_refine.transformation
                        /\ s.init \in IcpReach(loc[t].result_fast.transformation, MaxIcpIter)

\* A call has returned after the fine aligner improved on a coarse transform
\* that was not the identity.
C10_Witness ==
    \E t \in Threads :
        /\ pc[t] = "done" /\ Len(stages[t]) = 4
        /\ loc[t].result_fast.transformation # Identity4
        /\ loc[t].result_refine.transformation # loc[t].result_fast.transformation

====
